---- MODULE Spec2Model ----
(***************************************************************************)
(* Model of irunner2icpc_converter.py: the conversion of a contest export  *)
(* (XML) into an event feed (event-feed.ndjson).                           *)
(*                                                                         *)
(* Python strings that the program inspects (splits, strips, searches,     *)
(* parses as numbers or dates) are sequences of one-character strings.     *)
(* An absent XML attribute (Element.get returning None) is the value None. *)
(***************************************************************************)
EXTENDS Integers, Sequences, FiniteSets, TLC

VARIABLES
    pc,              \* position of create_icpc_package
    exc,             \* the exception that left create_icpc_package, or "none"
    dirExists,       \* output_dir exists
    fileExists,      \* event-feed.ndjson exists in output_dir
    file,            \* the lines of event-feed.ndjson, in order
    stdout,          \* the lines printed
    inputKind,       \* what ET.parse meets: "missing", "malformed", "ok"
    root,            \* the attributes and the name child of the root element
    start_time_dt,   \* local of create_icpc_package
    duration_delta,  \* local of create_icpc_package
    freeze_delta,    \* local of create_icpc_package
    i,               \* index of the running for loop over a fixed list
    langs,           \* root.find('languages').findall('language')
    probs,           \* root.find('problems').findall('problem')
    users,           \* the user elements iterated so far, in document order
    runs,            \* the run elements iterated so far, in document order
    organizations,   \* dict of create_icpc_package
    groups,          \* dict of create_icpc_package
    delta,           \* argument of a stand-alone call of format_hms_sss
    hms              \* result of that call

vars == <<pc, exc, dirExists, fileExists, file, stdout, inputKind, root, start_time_dt,
          duration_delta, freeze_delta, i, langs, probs, users, runs,
          organizations, groups, delta, hms>>

-----------------------------------------------------------------------------
(* Bounds of the model *)

MaxUsers == 2
MaxRuns == 2
MaxSeconds == 36000

-----------------------------------------------------------------------------
(* Values *)

None == <<"<None>">>

DigitChars == <<"0", "1", "2", "3", "4", "5", "6", "7", "8", "9">>

IsDigit(c) == \E k \in 1..10 : DigitChars[k] = c

DigitVal(c) == (CHOOSE k \in 1..10 : DigitChars[k] = c) - 1

RECURSIVE DigitsVal(_)
DigitsVal(s) ==
    IF s = <<>> THEN 0
    ELSE 10 * DigitsVal(SubSeq(s, 1, Len(s) - 1)) + DigitVal(s[Len(s)])

AllDigits(s) == s # <<>> /\ \A k \in 1..Len(s) : IsDigit(s[k])

(* int(x) of Python on an attribute value: TypeError on None, ValueError on
   text that is no decimal integer. *)
int(x) ==
    IF x = None THEN [err |-> "TypeError", v |-> 0]
    ELSE IF AllDigits(x) THEN [err |-> "none", v |-> DigitsVal(x)]
    ELSE IF x # <<>> /\ x[1] = "-" /\ AllDigits(Tail(x))
         THEN [err |-> "none", v |-> 0 - DigitsVal(Tail(x))]
    ELSE [err |-> "ValueError", v |-> 0]

RECURSIVE Digits(_)
Digits(n) ==
    IF n < 10 THEN <<DigitChars[n + 1]>>
    ELSE Digits(n \div 10) \o <<DigitChars[(n % 10) + 1]>>

(* str(int(n)) *)
Str(n) == IF n < 0 THEN <<"-">> \o Digits(0 - n) ELSE Digits(n)

(* format spec 02d, for 0 <= n *)
Pad2(n) == IF n < 10 THEN <<"0">> \o Digits(n) ELSE Digits(n)

(* format spec 06.3f of a float that holds a whole number of seconds *)
Fixed063(n) == Pad2(n) \o <<".", "0", "0", "0">>

(* A variant of format_hms_sss that writes the minutes without padding. *)
format_hms_sss_Unpadded(d) ==
    LET total_seconds == d
        hours == total_seconds \div 3600
        remainder == total_seconds % 3600
        minutes == remainder \div 60
        seconds == remainder % 60
    IN  Str(hours) \o <<":">> \o Str(minutes) \o <<":">> \o Fixed063(seconds)

(* delta is a timedelta made of whole seconds; divmod rounds to the floor. *)
format_hms_sss(d) ==
    LET total_seconds == d
        hours == total_seconds \div 3600
        remainder == total_seconds % 3600
        minutes == remainder \div 60
        seconds == remainder % 60
    IN  Str(hours) \o <<":">> \o Pad2(minutes) \o <<":">> \o Fixed063(seconds)

-----------------------------------------------------------------------------
(* Dates. A datetime is a day number of the proleptic Gregorian calendar and
   a second of that day, in local time; its zone is MINSK_TIMEZONE. *)

NoTime == [day |-> 0, sod |-> 0]

MINSK_TIMEZONE == 3

IsLeap(y) == (y % 4 = 0) /\ ((y % 100 # 0) \/ (y % 400 = 0))

DaysInMonth(y, m) ==
    IF m = 2 THEN (IF IsLeap(y) THEN 29 ELSE 28)
    ELSE IF m \in {4, 6, 9, 11} THEN 30 ELSE 31

RECURSIVE DaysBeforeMonth(_, _)
DaysBeforeMonth(y, m) ==
    IF m = 1 THEN 0 ELSE DaysBeforeMonth(y, m - 1) + DaysInMonth(y, m - 1)

DaysBeforeYear(y) ==
    (y - 1) * 365 + ((y - 1) \div 4) - ((y - 1) \div 100) + ((y - 1) \div 400)

(* datetime.strptime(x, '%Y/%m/%d %H:%M:%S').replace(tzinfo=MINSK_TIMEZONE) *)
strptime(x) ==
    IF x = None THEN [err |-> "TypeError", v |-> NoTime]
    ELSE IF ~ ( /\ Len(x) = 19
                /\ x[5] = "/" /\ x[8] = "/" /\ x[11] = " "
                /\ x[14] = ":" /\ x[17] = ":"
                /\ \A k \in (1..19) \ {5, 8, 11, 14, 17} : IsDigit(x[k]) )
         THEN [err |-> "ValueError", v |-> NoTime]
    ELSE LET y == DigitsVal(SubSeq(x, 1, 4))
             mo == DigitsVal(SubSeq(x, 6, 7))
             d == DigitsVal(SubSeq(x, 9, 10))
             h == DigitsVal(SubSeq(x, 12, 13))
             mi == DigitsVal(SubSeq(x, 15, 16))
             s == DigitsVal(SubSeq(x, 18, 19))
         IN  IF /\ y >= 1 /\ mo \in 1..12 /\ d >= 1
                /\ d <= DaysInMonth(y, mo)
                /\ h <= 23 /\ mi <= 59 /\ s <= 59
             THEN [err |-> "none",
                   v |-> [day |-> DaysBeforeYear(y) + DaysBeforeMonth(y, mo) + d,
                          sod |-> h * 3600 + mi * 60 + s]]
             ELSE [err |-> "ValueError", v |-> NoTime]

(* datetime + timedelta, the timedelta in whole seconds *)
PlusSeconds(dt, t) ==
    [day |-> dt.day + ((dt.sod + t) \div 86400), sod |-> (dt.sod + t) % 86400]

(* datetime.isoformat(): the date (as its day number), the time of day and
   the offset of the zone. *)
isoformat(dt) ==
    LET sod == dt.sod
    IN  [date |-> dt.day,
         time |-> Pad2(sod \div 3600) \o <<":">> \o Pad2((sod % 3600) \div 60)
                  \o <<":">> \o Pad2(sod % 60),
         tz |-> <<"+">> \o Pad2(MINSK_TIMEZONE) \o <<":", "0", "0">>]

-----------------------------------------------------------------------------
(* String operations *)

RECURSIVE BeforeColon(_)
(* s.split(':')[0] *)
BeforeColon(s) ==
    IF s = <<>> \/ s[1] = ":" THEN <<>>
    ELSE <<s[1]>> \o BeforeColon(Tail(s))

RECURSIVE LStrip(_)
LStrip(s) == IF s # <<>> /\ s[1] = " " THEN LStrip(Tail(s)) ELSE s

RECURSIVE RStrip(_)
RStrip(s) ==
    IF s # <<>> /\ s[Len(s)] = " " THEN RStrip(SubSeq(s, 1, Len(s) - 1)) ELSE s

(* s.strip() *)
strip(s) == RStrip(LStrip(s))

(* sub in s *)
Contains(s, sub) ==
    \E k \in 0..(Len(s) - Len(sub)) : SubSeq(s, k + 1, k + Len(sub)) = sub

GuestTeam == <<"G", "u", "e", "s", "t", " ", "t", "e", "a", "m">>
Guest == <<"G", "u", "e", "s", "t">>

OrgName(team_name) == strip(BeforeColon(team_name))

(* A variant of the group id that ignores the guest marker. *)
GroupId_NoGuest(team_name) == OrgName(team_name)

GroupId(team_name) ==
    IF Contains(team_name, GuestTeam) THEN Guest ELSE OrgName(team_name)

-----------------------------------------------------------------------------
(* Tables *)

VERDICT_MAP ==
    (<<"O", "K">> :> "AC") @@ (<<"W", "A">> :> "WA") @@ (<<"P", "E">> :> "PE")
    @@ (<<"T", "L">> :> "TLE") @@ (<<"M", "L">> :> "MLE") @@ (<<"R", "T">> :> "RTE")

(* A variant of the lookup whose fallback is WA. *)
Verdict_FallbackWA(status) ==
    IF status \in DOMAIN VERDICT_MAP THEN VERDICT_MAP[status] ELSE "WA"

(* VERDICT_MAP.get(status, 'CE') *)
Verdict(status) ==
    IF status \in DOMAIN VERDICT_MAP THEN VERDICT_MAP[status] ELSE "CE"

STANDARD_JUDGEMENT_TYPES == <<
    [id |-> "AC", name |-> "Accepted", penalty |-> FALSE, solved |-> TRUE],
    [id |-> "WA", name |-> "Wrong Answer", penalty |-> TRUE, solved |-> FALSE],
    [id |-> "TLE", name |-> "Time Limit Exceeded", penalty |-> TRUE, solved |-> FALSE],
    [id |-> "RTE", name |-> "Run-Time Error", penalty |-> TRUE, solved |-> FALSE],
    [id |-> "MLE", name |-> "Memory Limit Exceeded", penalty |-> TRUE, solved |-> FALSE],
    [id |-> "PE", name |-> "Presentation Error", penalty |-> TRUE, solved |-> FALSE],
    [id |-> "CE", name |-> "Compiler Error", penalty |-> FALSE, solved |-> FALSE] >>

-----------------------------------------------------------------------------
(* Events. The token also holds the wall-clock time of the write, which no
   other part of the program reads; it is left out of the token here. *)

write_event(f, event_type, data) ==
    Append(f, [type |-> event_type, op |-> "create", data |-> data,
               token |-> <<event_type, data.id>>])

(* A variant of write_update_event that writes a create event. *)
write_update_event_AsCreate(f, event_type, data) ==
    write_event(f, event_type, data)

write_update_event(f, event_type, data) ==
    Append(f, [type |-> event_type, op |-> "update", data |-> data,
               token |-> <<event_type, data.id, "update">>])

-----------------------------------------------------------------------------
(* Inputs *)

XML_FILE_PATH == "contest.xml"
OUTPUT_DIR == "out"
CONTEST_ID == "c1"

GoodStart == <<"2", "0", "2", "4", "/", "0", "2", "/", "2", "9", " ",
               "2", "3", ":", "0", "0", ":", "0", "0">>
BadStart == <<"2", "0", "2", "4", "-", "0", "1", "-", "0", "1">>

RootPool ==
    [start_time : {GoodStart, BadStart, None},
     duration : {<<"1", "8", "0", "0", "0">>, <<"5", "h">>, None},
     fog_time : {<<"3", "6", "0", "0">>, <<"x">>},
     name : {<<"C", "u", "p">>, None}]

LangLists ==
    { <<>>,
      <<[id |-> "cpp", long_name |-> "GNU C++"],
        [id |-> "py", long_name |-> "Python 3"]>> }

ProbLists ==
    { <<[id |-> "p1", short_name |-> "A", long_name |-> "Sum"],
        [id |-> "p2", short_name |-> "B", long_name |-> "Path"]>> }

UserPool ==
    { [id |-> "t1", name |-> <<"A", ":", " ", "x">>],
      [id |-> "t2", name |-> <<"A", " ", ":">> \o GuestTeam],
      [id |-> "t3", name |-> <<" ", "B", ":", " ">> \o GuestTeam \o <<" ", "2">>],
      [id |-> "t4", name |-> None] }

Run(rid, time, status) ==
    [run_id |-> rid, time |-> time, user_id |-> "t1", prob_id |-> "p1",
     lang_id |-> "cpp", status |-> status]

RunPool ==
    { Run("r1", <<"0">>, <<"O", "K">>),
      Run("r2", <<"1", "2", "0">>, <<"W", "A">>),
      Run("r3", <<"3", "6", "6", "1">>, <<"P", "E">>),
      Run("r4", <<"3", "6", "0", "0", "0">>, <<"T", "L">>),
      Run("r5", <<"5", "9">>, <<"M", "L">>),
      Run("r6", <<"-", "5">>, <<"R", "T">>),
      Run("r7", <<"7", "2", "0", "0">>, <<"C", "E">>),
      Run("r8", <<"3", "5", "9", "9">>, None),
      Run("r9", <<"1", "2", "x">>, <<"O", "K">>),
      Run("r10", None, <<"O", "K">>) }

OldFile == <<[type |-> "old", op |-> "create", data |-> [id |-> "old"],
              token |-> <<"old", "old">>]>>

-----------------------------------------------------------------------------
(* create_icpc_package *)

Init ==
    /\ pc = "makedirs"
    /\ exc = "none"
    /\ dirExists \in BOOLEAN
    /\ fileExists \in (IF dirExists THEN BOOLEAN ELSE {FALSE})
    /\ file = (IF fileExists THEN OldFile ELSE <<>>)
    /\ stdout = <<>>
    /\ inputKind \in {"missing", "malformed", "ok"}
    /\ root \in RootPool
    /\ start_time_dt = NoTime
    /\ duration_delta = 0
    /\ freeze_delta = 0
    /\ i = 0
    /\ langs = <<>>
    /\ probs = <<>>
    /\ users = <<>>
    /\ runs = <<>>
    /\ organizations = <<>>
    /\ groups = <<>>
    /\ delta = 0
    /\ hms = <<>>

(* An exception leaves create_icpc_package; the with statement, when entered,
   closes the file with the lines written so far. *)
Raise(e) == pc' = "crashed" /\ exc' = e

MakeDirs ==
    /\ pc = "makedirs"
    /\ dirExists' = TRUE
    /\ pc' = "parse"
    /\ UNCHANGED <<exc, fileExists, file, stdout, inputKind, root, start_time_dt,
                   duration_delta, freeze_delta, i, langs, probs, users, runs,
                   organizations, groups, delta, hms>>

(* A variant of the except clause that does not return. *)
ParseFail_NoReturn ==
    /\ pc = "parse"
    /\ inputKind \in {"missing", "malformed"}
    /\ stdout' = Append(stdout,
           [msg |-> "Error: Could not process", path |-> XML_FILE_PATH,
            cause |-> IF inputKind = "missing" THEN "FileNotFoundError"
                      ELSE "ParseError"])
    /\ pc' = "header"
    /\ UNCHANGED <<exc, dirExists, fileExists, file, inputKind, root, start_time_dt,
                   duration_delta, freeze_delta, i, langs, probs, users, runs,
                   organizations, groups, delta, hms>>

ParseFail ==
    /\ pc = "parse"
    /\ inputKind \in {"missing", "malformed"}
    /\ stdout' = Append(stdout,
           [msg |-> "Error: Could not process", path |-> XML_FILE_PATH,
            cause |-> IF inputKind = "missing" THEN "FileNotFoundError"
                      ELSE "ParseError"])
    /\ pc' = "failed"
    /\ UNCHANGED <<exc, dirExists, fileExists, file, inputKind, root, start_time_dt,
                   duration_delta, freeze_delta, i, langs, probs, users, runs,
                   organizations, groups, delta, hms>>

ParseOk ==
    /\ pc = "parse"
    /\ inputKind = "ok"
    /\ pc' = "header"
    /\ UNCHANGED <<exc, dirExists, fileExists, file, stdout, inputKind, root, start_time_dt,
                   duration_delta, freeze_delta, i, langs, probs, users, runs,
                   organizations, groups, delta, hms>>

Header ==
    /\ pc = "header"
    /\ LET st == strptime(root.start_time)
           du == int(root.duration)
           fo == int(root.fog_time)
       IN  IF st.err # "none"
           THEN Raise(st.err) /\ UNCHANGED <<start_time_dt, duration_delta, freeze_delta>>
           ELSE IF du.err # "none"
           THEN /\ Raise(du.err)
                /\ start_time_dt' = st.v
                /\ UNCHANGED <<duration_delta, freeze_delta>>
           ELSE IF fo.err # "none"
           THEN /\ Raise(fo.err)
                /\ start_time_dt' = st.v
                /\ duration_delta' = du.v
                /\ UNCHANGED freeze_delta
           ELSE /\ start_time_dt' = st.v
                /\ duration_delta' = du.v
                /\ freeze_delta' = fo.v
                /\ pc' = "open"
                /\ UNCHANGED exc
    /\ UNCHANGED <<dirExists, fileExists, file, stdout, inputKind, root, i, langs, probs,
                   users, runs, organizations, groups, delta, hms>>

(* A variant of open that appends to the file (mode 'a'). *)
Open_Append ==
    /\ pc = "open"
    /\ fileExists' = TRUE
    /\ file' = file
    /\ stdout' = Append(stdout, [msg |-> "Writing complete contest definition to event feed..."])
    /\ pc' = "contests"
    /\ UNCHANGED <<exc, dirExists, inputKind, root, start_time_dt,
                   duration_delta, freeze_delta, i, langs, probs, users, runs,
                   organizations, groups, delta, hms>>

Open ==
    /\ pc = "open"
    /\ fileExists' = TRUE
    /\ file' = <<>>
    /\ stdout' = Append(stdout, [msg |-> "Writing complete contest definition to event feed..."])
    /\ pc' = "contests"
    /\ UNCHANGED <<exc, dirExists, inputKind, root, start_time_dt,
                   duration_delta, freeze_delta, i, langs, probs, users, runs,
                   organizations, groups, delta, hms>>

WriteContest ==
    /\ pc = "contests"
    /\ IF root.name = None
       THEN Raise("AttributeError") /\ UNCHANGED <<file, i>>
       ELSE /\ file' = write_event(file, "contests",
                  [id |-> CONTEST_ID,
                   name |-> root.name,
                   start_time |-> isoformat(start_time_dt),
                   duration |-> format_hms_sss(duration_delta),
                   scoreboard_freeze_duration |-> format_hms_sss(freeze_delta),
                   penalty_time |-> 20])
            /\ pc' = "judgement-types"
            /\ i' = 1
            /\ UNCHANGED exc
    /\ UNCHANGED <<dirExists, fileExists, stdout, inputKind, root, start_time_dt,
                   duration_delta, freeze_delta, langs, probs, users, runs,
                   organizations, groups, delta, hms>>

WriteJudgementType ==
    /\ pc = "judgement-types"
    /\ i <= Len(STANDARD_JUDGEMENT_TYPES)
    /\ file' = write_event(file, "judgement-types", STANDARD_JUDGEMENT_TYPES[i])
    /\ i' = i + 1
    /\ UNCHANGED <<pc, exc, dirExists, fileExists, stdout, inputKind, root, start_time_dt,
                   duration_delta, freeze_delta, langs, probs, users, runs,
                   organizations, groups, delta, hms>>

(* root.find('languages') is None when the collection is missing *)
LanguagesMissing ==
    /\ pc = "judgement-types"
    /\ i > Len(STANDARD_JUDGEMENT_TYPES)
    /\ Raise("AttributeError")
    /\ UNCHANGED <<dirExists, fileExists, file, stdout, inputKind, root, start_time_dt,
                   duration_delta, freeze_delta, i, langs, probs, users, runs,
                   organizations, groups, delta, hms>>

FindLanguages ==
    /\ pc = "judgement-types"
    /\ i > Len(STANDARD_JUDGEMENT_TYPES)
    /\ langs' \in LangLists
    /\ i' = 1
    /\ pc' = "languages"
    /\ UNCHANGED <<exc, dirExists, fileExists, file, stdout, inputKind, root, start_time_dt,
                   duration_delta, freeze_delta, probs, users, runs,
                   organizations, groups, delta, hms>>

WriteLanguage ==
    /\ pc = "languages"
    /\ i <= Len(langs)
    /\ file' = write_event(file, "languages",
           [id |-> langs[i].id, name |-> langs[i].long_name])
    /\ i' = i + 1
    /\ UNCHANGED <<pc, exc, dirExists, fileExists, stdout, inputKind, root, start_time_dt,
                   duration_delta, freeze_delta, langs, probs, users, runs,
                   organizations, groups, delta, hms>>

UsersMissing ==
    /\ pc = "languages"
    /\ i > Len(langs)
    /\ Raise("AttributeError")
    /\ UNCHANGED <<dirExists, fileExists, file, stdout, inputKind, root, start_time_dt,
                   duration_delta, freeze_delta, i, langs, probs, users, runs,
                   organizations, groups, delta, hms>>

FindUsers ==
    /\ pc = "languages"
    /\ i > Len(langs)
    /\ organizations' = <<>>
    /\ groups' = <<>>
    /\ pc' = "users"
    /\ UNCHANGED <<exc, dirExists, fileExists, file, stdout, inputKind, root, start_time_dt,
                   duration_delta, freeze_delta, i, langs, probs, users, runs,
                   delta, hms>>

(* A variant of the loop body that writes the organization of every user. *)
UserBody_NoDedup(user) ==
    IF user.name = None
    THEN /\ Raise("AttributeError")
         /\ UNCHANGED <<file, organizations, groups>>
    ELSE LET team_name == user.name
             org_name == OrgName(team_name)
             orgs1 == (org_name :> [id |-> org_name, name |-> org_name]) @@ organizations
             f1 == write_event(file, "organizations", orgs1[org_name])
             group_id == GroupId(team_name)
             newGroup == group_id \notin DOMAIN groups
             groups1 == IF newGroup
                        THEN groups @@ (group_id :> [id |-> group_id, name |-> group_id])
                        ELSE groups
             f2 == IF newGroup THEN write_event(f1, "groups", groups1[group_id])
                   ELSE f1
         IN  /\ organizations' = orgs1
             /\ groups' = groups1
             /\ file' = write_event(f2, "teams",
                    [id |-> user.id, name |-> team_name,
                     organization_id |-> org_name, group_ids |-> <<group_id>>])
             /\ UNCHANGED <<pc, exc>>

(* A variant of the loop body that handles the group before the organization. *)
UserBody_GroupFirst(user) ==
    IF user.name = None
    THEN /\ Raise("AttributeError")
         /\ UNCHANGED <<file, organizations, groups>>
    ELSE LET team_name == user.name
             org_name == OrgName(team_name)
             group_id == GroupId(team_name)
             newGroup == group_id \notin DOMAIN groups
             groups1 == IF newGroup
                        THEN groups @@ (group_id :> [id |-> group_id, name |-> group_id])
                        ELSE groups
             f1 == IF newGroup THEN write_event(file, "groups", groups1[group_id])
                   ELSE file
             newOrg == org_name \notin DOMAIN organizations
             orgs1 == IF newOrg
                      THEN organizations @@ (org_name :> [id |-> org_name, name |-> org_name])
                      ELSE organizations
             f2 == IF newOrg THEN write_event(f1, "organizations", orgs1[org_name])
                   ELSE f1
         IN  /\ organizations' = orgs1
             /\ groups' = groups1
             /\ file' = write_event(f2, "teams",
                    [id |-> user.id, name |-> team_name,
                     organization_id |-> org_name, group_ids |-> <<group_id>>])
             /\ UNCHANGED <<pc, exc>>

(* One iteration of the loop over the user elements, for the next element
   user of the document. *)
UserBody(user) ==
    IF user.name = None
    THEN /\ Raise("AttributeError")
         /\ UNCHANGED <<file, organizations, groups>>
    ELSE LET team_name == user.name
             org_name == OrgName(team_name)
             newOrg == org_name \notin DOMAIN organizations
             orgs1 == IF newOrg
                      THEN organizations @@ (org_name :> [id |-> org_name, name |-> org_name])
                      ELSE organizations
             f1 == IF newOrg THEN write_event(file, "organizations", orgs1[org_name])
                   ELSE file
             group_id == GroupId(team_name)
             newGroup == group_id \notin DOMAIN groups
             groups1 == IF newGroup
                        THEN groups @@ (group_id :> [id |-> group_id, name |-> group_id])
                        ELSE groups
             f2 == IF newGroup THEN write_event(f1, "groups", groups1[group_id])
                   ELSE f1
         IN  /\ organizations' = orgs1
             /\ groups' = groups1
             /\ file' = write_event(f2, "teams",
                    [id |-> user.id, name |-> team_name,
                     organization_id |-> org_name, group_ids |-> <<group_id>>])
             /\ UNCHANGED <<pc, exc>>

UserStep ==
    /\ pc = "users"
    /\ Len(users) < MaxUsers
    /\ \E user \in UserPool :
          /\ users' = Append(users, user)
          /\ UserBody(user)
    /\ UNCHANGED <<dirExists, fileExists, stdout, inputKind, root, start_time_dt,
                   duration_delta, freeze_delta, i, langs, probs, runs,
                   delta, hms>>

ProblemsMissing ==
    /\ pc = "users"
    /\ Raise("AttributeError")
    /\ UNCHANGED <<dirExists, fileExists, file, stdout, inputKind, root, start_time_dt,
                   duration_delta, freeze_delta, i, langs, probs, users, runs,
                   organizations, groups, delta, hms>>

FindProblems ==
    /\ pc = "users"
    /\ probs' \in ProbLists
    /\ i' = 1
    /\ pc' = "problems"
    /\ UNCHANGED <<exc, dirExists, fileExists, file, stdout, inputKind, root, start_time_dt,
                   duration_delta, freeze_delta, langs, users, runs,
                   organizations, groups, delta, hms>>

WriteProblem ==
    /\ pc = "problems"
    /\ i <= Len(probs)
    /\ file' = write_event(file, "problems",
           [id |-> probs[i].id, label |-> probs[i].short_name,
            name |-> probs[i].long_name])
    /\ i' = i + 1
    /\ UNCHANGED <<pc, exc, dirExists, fileExists, stdout, inputKind, root, start_time_dt,
                   duration_delta, freeze_delta, langs, probs, users, runs,
                   organizations, groups, delta, hms>>

RunsMissing ==
    /\ pc = "problems"
    /\ i > Len(probs)
    /\ stdout' = Append(stdout, [msg |-> "Writing submissions and judgements..."])
    /\ Raise("AttributeError")
    /\ UNCHANGED <<dirExists, fileExists, file, inputKind, root, start_time_dt,
                   duration_delta, freeze_delta, i, langs, probs, users, runs,
                   organizations, groups, delta, hms>>

FindRuns ==
    /\ pc = "problems"
    /\ i > Len(probs)
    /\ stdout' = Append(stdout, [msg |-> "Writing submissions and judgements..."])
    /\ pc' = "runs"
    /\ UNCHANGED <<exc, dirExists, fileExists, file, inputKind, root, start_time_dt,
                   duration_delta, freeze_delta, i, langs, probs, users, runs,
                   organizations, groups, delta, hms>>

(* A variant of the submission whose time is the contest start. *)
Submission_AtContestStart(run, time_from_start, absolute_time) ==
    [id |-> run.run_id, team_id |-> run.user_id, problem_id |-> run.prob_id,
     language_id |-> run.lang_id, time |-> isoformat(start_time_dt),
     contest_time |-> format_hms_sss(time_from_start)]

Submission(run, time_from_start, absolute_time) ==
    [id |-> run.run_id, team_id |-> run.user_id, problem_id |-> run.prob_id,
     language_id |-> run.lang_id, time |-> isoformat(absolute_time),
     contest_time |-> format_hms_sss(time_from_start)]

Judgement(run, time_from_start, absolute_time) ==
    [id |-> run.run_id,
     submission_id |-> run.run_id,
     judgement_type_id |-> Verdict(run.status),
     start_time |-> isoformat(absolute_time),
     start_contest_time |-> format_hms_sss(time_from_start),
     end_time |-> isoformat(absolute_time),
     end_contest_time |-> format_hms_sss(time_from_start)]

(* A variant of the loop body that writes the judgement before the submission. *)
RunBody_JudgementFirst(run) ==
    LET t == int(run.time)
        time_from_start == t.v
        absolute_time == PlusSeconds(start_time_dt, time_from_start)
    IN  IF t.err # "none"
        THEN Raise(t.err) /\ UNCHANGED file
        ELSE /\ file' = write_event(
                    write_event(file, "judgements",
                        Judgement(run, time_from_start, absolute_time)),
                    "submissions", Submission(run, time_from_start, absolute_time))
             /\ UNCHANGED <<pc, exc>>

(* One iteration of the loop over the run elements. *)
RunBody(run) ==
    LET t == int(run.time)
        time_from_start == t.v
        absolute_time == PlusSeconds(start_time_dt, time_from_start)
    IN  IF t.err # "none"
        THEN Raise(t.err) /\ UNCHANGED file
        ELSE /\ file' = write_event(
                    write_event(file, "submissions",
                        Submission(run, time_from_start, absolute_time)),
                    "judgements", Judgement(run, time_from_start, absolute_time))
             /\ UNCHANGED <<pc, exc>>

RunStep ==
    /\ pc = "runs"
    /\ Len(runs) < MaxRuns
    /\ \E run \in RunPool :
          /\ runs' = Append(runs, run)
          /\ RunBody(run)
    /\ UNCHANGED <<dirExists, fileExists, stdout, inputKind, root, start_time_dt,
                   duration_delta, freeze_delta, i, langs, probs, users,
                   organizations, groups, delta, hms>>

(* The final state event, the end of the with statement and the last print. *)
WriteState ==
    /\ pc = "runs"
    /\ LET end_time_iso == isoformat(PlusSeconds(start_time_dt, duration_delta))
       IN  file' = write_update_event(file, "state",
               [id |-> CONTEST_ID, ended |-> end_time_iso, finalized |-> end_time_iso])
    /\ stdout' = stdout \o <<[msg |-> "Writing final contest state..."],
                             [msg |-> "Successfully created compliant ICPC Contest Package",
                              path |-> OUTPUT_DIR]>>
    /\ pc' = "done"
    /\ UNCHANGED <<exc, dirExists, fileExists, inputKind, root, start_time_dt,
                   duration_delta, freeze_delta, i, langs, probs, users, runs,
                   organizations, groups, delta, hms>>

Next ==
    \/ MakeDirs
    \/ ParseFail
    \/ ParseOk
    \/ Header
    \/ Open
    \/ WriteContest
    \/ WriteJudgementType
    \/ LanguagesMissing
    \/ FindLanguages
    \/ WriteLanguage
    \/ UsersMissing
    \/ FindUsers
    \/ UserStep
    \/ ProblemsMissing
    \/ FindProblems
    \/ WriteProblem
    \/ RunsMissing
    \/ FindRuns
    \/ RunStep
    \/ WriteState

Spec == Init /\ [][Next]_vars

-----------------------------------------------------------------------------
(* format_hms_sss on its own: every whole number of seconds up to MaxSeconds *)

FmtInit ==
    /\ pc = "format"
    /\ exc = "none"
    /\ dirExists = FALSE
    /\ fileExists = FALSE
    /\ file = <<>>
    /\ stdout = <<>>
    /\ inputKind = "ok"
    /\ root = [start_time |-> None, duration |-> None, fog_time |-> None, name |-> None]
    /\ start_time_dt = NoTime
    /\ duration_delta = 0
    /\ freeze_delta = 0
    /\ i = 0
    /\ langs = <<>>
    /\ probs = <<>>
    /\ users = <<>>
    /\ runs = <<>>
    /\ organizations = <<>>
    /\ groups = <<>>
    /\ delta \in 0..MaxSeconds
    /\ hms = <<>>

Format ==
    /\ pc = "format"
    /\ hms' = format_hms_sss(delta)
    /\ pc' = "formatted"
    /\ UNCHANGED <<exc, dirExists, fileExists, file, stdout, inputKind, root, start_time_dt,
                   duration_delta, freeze_delta, i, langs, probs, users, runs,
                   organizations, groups, delta>>

FmtNext == Format

FmtSpec == FmtInit /\ [][FmtNext]_vars

-----------------------------------------------------------------------------
(* Reading the event feed *)

OfType(f, T) == SelectSeq(f, LAMBDA e : e.type \in T)

Positions(T) == {k \in 1..Len(file) : file[k].type \in T}

(* The elements whose loop iteration ran to its end: an element that raised
   is the last one iterated. *)
DoneUsers ==
    IF users # <<>> /\ users[Len(users)].name = None
    THEN SubSeq(users, 1, Len(users) - 1) ELSE users

DoneRuns ==
    IF runs # <<>> /\ int(runs[Len(runs)].time).err # "none"
    THEN SubSeq(runs, 1, Len(runs) - 1) ELSE runs

Terminal == pc \in {"done", "failed", "crashed"}

(* The file was opened for writing by this call. *)
Opened ==
    /\ stdout # <<>>
    /\ stdout[1].msg = "Writing complete contest definition to event feed..."

(* The file is as it was before the call. *)
Untouched == file = (IF fileExists THEN OldFile ELSE <<>>)

-----------------------------------------------------------------------------
(* C1: once the run loop has iterated a list of well-formed run elements,
   the feed holds as many submissions events as judgements events as runs;
   the k-th submissions event is for the k-th run and the line right after it
   is the judgements event of that run. *)
C1_SubmissionJudgementPairs ==
    pc \in {"runs", "done"} =>
        LET subs == OfType(file, {"submissions"})
            juds == OfType(file, {"judgements"})
            first == Len(file) - 2 * Len(runs) - (IF pc = "done" THEN 1 ELSE 0)
        IN  /\ Len(subs) = Len(runs)
            /\ Len(juds) = Len(runs)
            /\ \A k \in 1..Len(runs) :
                  /\ subs[k].data.id = runs[k].run_id
                  /\ file[first + 2 * k - 1] = subs[k]
                  /\ file[first + 2 * k].type = "judgements"
                  /\ file[first + 2 * k].data.submission_id = runs[k].run_id
                  /\ file[first + 2 * k] = juds[k]

C1_Witness ==
    /\ pc = "done"
    /\ Len(runs) = 2
    /\ runs[1].run_id # runs[2].run_id
    /\ Len(OfType(file, {"judgements"})) = 2

(* C2: every organization id derived from a user element has exactly one
   organizations event in the feed, placed before every teams event of that
   organization. *)
C2_OneOrganizationEvent ==
    \A u \in 1..Len(DoneUsers) :
        LET o == strip(BeforeColon(DoneUsers[u].name))
            at == {k \in Positions({"organizations"}) : file[k].data.id = o}
        IN  /\ Cardinality(at) = 1
            /\ \A t \in Positions({"teams"}) :
                  file[t].data.organization_id = o => \E k \in at : k < t

C2_Witness ==
    /\ Len(DoneUsers) = 2
    /\ DoneUsers[1] # DoneUsers[2]
    /\ strip(BeforeColon(DoneUsers[1].name)) = strip(BeforeColon(DoneUsers[2].name))
    /\ Cardinality(Positions({"teams"})) = 2

(* C3: a successful call leaves the events in stage order: 1 contests,
   7 judgement-types, the languages, the organizations/groups/teams, the
   problems, the submissions/judgements, 1 state; the state event is the last
   line and the only update. *)
StageOf(type) ==
    CASE type = "contests" -> 1
      [] type = "judgement-types" -> 2
      [] type = "languages" -> 3
      [] type \in {"organizations", "groups", "teams"} -> 4
      [] type = "problems" -> 5
      [] type \in {"submissions", "judgements"} -> 6
      [] type = "state" -> 7
      [] OTHER -> 0

C3_StageOrder ==
    pc = "done" =>
        /\ \A k \in 1..Len(file) : StageOf(file[k].type) > 0
        /\ \A k \in 1..(Len(file) - 1) :
              StageOf(file[k].type) <= StageOf(file[k + 1].type)
        /\ Cardinality(Positions({"contests"})) = 1
        /\ Cardinality(Positions({"judgement-types"})) = 7
        /\ Cardinality(Positions({"languages"})) = Len(langs)
        /\ Cardinality(Positions({"teams"})) = Len(users)
        /\ Cardinality(Positions({"problems"})) = Len(probs)
        /\ Cardinality(Positions({"submissions"})) = Len(runs)
        /\ Cardinality(Positions({"judgements"})) = Len(runs)
        /\ Positions({"state"}) = {Len(file)}
        /\ \A k \in 1..Len(file) :
              file[k].op = (IF k = Len(file) THEN "update" ELSE "create")

C3_Witness ==
    /\ pc = "done"
    /\ Len(langs) = 2
    /\ Len(probs) = 2
    /\ Len(users) = 2
    /\ Len(runs) = 1
    /\ Cardinality(Positions({"organizations"})) = 2

C4_NothingWritten ==
    inputKind \in {"missing", "malformed"} =>
        /\ file' = file
        /\ fileExists' = fileExists
        /\ exc' = "none"
        /\ pc' \in {"parse", "failed"}
        /\ pc' = "failed" =>
              /\ Len(stdout') = 1
              /\ stdout'[1].msg = "Error: Could not process"
              /\ stdout'[1].path = XML_FILE_PATH

(* C4: when the input is missing or malformed, no step of the call changes
   event-feed.ndjson or creates it; the call prints the error and returns. *)
C4_InputFailureWritesNothing == [][C4_NothingWritten]_vars

C4_Witness ==
    /\ pc = "failed"
    /\ inputKind = "malformed"
    /\ fileExists
    /\ file = OldFile
    /\ Len(stdout) = 1

(* C5, as stated: a finished call has never left event-feed.ndjson holding a
   non-empty part of the event stream without the final state event. *)
C5_NoPartialFile ==
    Terminal =>
        ~ ( /\ Opened
            /\ file # <<>>
            /\ file[Len(file)].type # "state" )

(* C5, amended: a finished call is in exactly one of three outcomes: success
   with the whole feed written; input failure, reported, the file untouched;
   an exception that left the call, with the file untouched when raised
   before the file was opened and otherwise holding the events written so
   far, without the state event. *)
C5_Success ==
    /\ pc = "done" /\ exc = "none" /\ inputKind = "ok"
    /\ Opened /\ fileExists
    /\ file # <<>> /\ Positions({"state"}) = {Len(file)}

C5_InputFailure ==
    /\ pc = "failed" /\ exc = "none" /\ inputKind # "ok"
    /\ ~ Opened /\ Untouched

C5_Aborted ==
    /\ pc = "crashed" /\ exc # "none" /\ inputKind = "ok"
    /\ IF Opened
       THEN fileExists /\ Positions({"state", "old"}) = {}
       ELSE Untouched

C5_ThreeOutcomes ==
    /\ Terminal => (C5_Success \/ C5_InputFailure \/ C5_Aborted)
    /\ ~ Terminal => ~ (C5_Success \/ C5_InputFailure \/ C5_Aborted)

C5_Witness ==
    /\ pc = "crashed"
    /\ exc = "ValueError"
    /\ Opened
    /\ Cardinality(Positions({"submissions"})) = 1
    /\ file[Len(file)].type = "judgements"
    /\ Len(runs) = 2

(* C6: the judgement_type_id of the judgements event of a run is the table
   image of the status of the run, CE for a status outside the table or
   absent; it is the id of a judgement-types event written before it. *)
TableImage(status) ==
    CASE status = <<"O", "K">> -> "AC"
      [] status = <<"W", "A">> -> "WA"
      [] status = <<"P", "E">> -> "PE"
      [] status = <<"T", "L">> -> "TLE"
      [] status = <<"M", "L">> -> "MLE"
      [] status = <<"R", "T">> -> "RTE"
      [] OTHER -> "CE"

C6_VerdictTable ==
    LET juds == OfType(file, {"judgements"})
    IN  /\ Len(juds) = Len(DoneRuns)
        /\ \A k \in 1..Len(juds) :
              juds[k].data.judgement_type_id = TableImage(DoneRuns[k].status)
        /\ \A j \in Positions({"judgements"}) :
              \E t \in Positions({"judgement-types"}) :
                  t < j /\ file[t].data.id = file[j].data.judgement_type_id

C6_Witness ==
    /\ Len(DoneRuns) = 2
    /\ DoneRuns[1].status = None
    /\ DoneRuns[2].status = <<"T", "L">>
    /\ Len(OfType(file, {"judgements"})) = 2

-----------------------------------------------------------------------------
(* Reading a rendered duration back: the text before the first colon, the
   text between the colons, the text after the second colon. *)

RECURSIVE AfterColon(_)
AfterColon(s) ==
    IF s = <<>> THEN <<>>
    ELSE IF s[1] = ":" THEN Tail(s) ELSE AfterColon(Tail(s))

HoursField(s) == BeforeColon(s)
MinutesField(s) == BeforeColon(AfterColon(s))
SecondsField(s) == AfterColon(AfterColon(s))

(* C7: for 0 <= s, format_hms_sss renders H:MM:SS.000 with H = s div 3600
   unpadded, MM and SS two digits each and below 60, and the three fields
   read back give s; 0, 3661 and 36000 render as the spec says. *)
C7_FormatHms ==
    pc = "formatted" =>
        LET hf == HoursField(hms)
            mf == MinutesField(hms)
            sf == SecondsField(hms)
        IN  /\ AllDigits(hf) /\ (Len(hf) > 1 => hf[1] # "0")
            /\ Len(mf) = 2 /\ AllDigits(mf)
            /\ Len(sf) = 6 /\ AllDigits(SubSeq(sf, 1, 2))
            /\ SubSeq(sf, 3, 6) = <<".", "0", "0", "0">>
            /\ Len(hms) = Len(hf) + 10
            /\ DigitsVal(hf) = delta \div 3600
            /\ DigitsVal(mf) = (delta % 3600) \div 60
            /\ DigitsVal(SubSeq(sf, 1, 2)) = delta % 60
            /\ DigitsVal(mf) < 60
            /\ DigitsVal(SubSeq(sf, 1, 2)) < 60
            /\ 3600 * DigitsVal(hf) + 60 * DigitsVal(mf)
                 + DigitsVal(SubSeq(sf, 1, 2)) = delta
            /\ delta = 0 =>
                 hms = <<"0", ":", "0", "0", ":", "0", "0", ".", "0", "0", "0">>
            /\ delta = 3661 =>
                 hms = <<"1", ":", "0", "1", ":", "0", "1", ".", "0", "0", "0">>
            /\ delta = 36000 =>
                 hms = <<"1", "0", ":", "0", "0", ":", "0", "0", ".", "0", "0", "0">>

C7_Witness ==
    /\ pc = "formatted"
    /\ delta = 36000
    /\ hms = <<"1", "0", ":", "0", "0", ":", "0", "0", ".", "0", "0", "0">>

-----------------------------------------------------------------------------
(* The participant stage, read from the feed: the events of the k-th user
   are those after the teams event of the user before, up to its own; an
   event after the last teams event makes a segment of its own. *)

PartTypes == {"organizations", "groups", "teams"}

Part == OfType(file, PartTypes)

RECURSIVE SplitAtTeams(_, _)
SplitAtTeams(rest, cur) ==
    IF rest = <<>> THEN (IF cur = <<>> THEN <<>> ELSE <<cur>>)
    ELSE IF Head(rest).type = "teams"
         THEN <<Append(cur, Head(rest))>> \o SplitAtTeams(Tail(rest), <<>>)
         ELSE SplitAtTeams(Tail(rest), Append(cur, Head(rest)))

Segments == SplitAtTeams(Part, <<>>)

TypesOf(seg) == [q \in 1..Len(seg) |-> seg[q].type]

OrgOf(k) == strip(BeforeColon(DoneUsers[k].name))

GroupOf(k) ==
    IF Contains(DoneUsers[k].name, GuestTeam) THEN Guest ELSE OrgOf(k)

OrgNew(k) == \A j \in 1..(k - 1) : OrgOf(j) # OrgOf(k)

GroupNew(k) == \A j \in 1..(k - 1) : GroupOf(j) # GroupOf(k)

(* The events of the participant stage are one block of the feed. *)
PartAdjacent ==
    LET at == Positions(PartTypes)
    IN  \A a \in at : (a + 1 \in at) \/ (\A b \in at : b <= a)

OneTeamPerUser(segs) ==
    /\ Cardinality(Positions({"teams"})) = Len(DoneUsers)
    /\ Len(segs) = Len(DoneUsers)
    /\ \A k \in 1..Len(segs) :
          LET team == segs[k][Len(segs[k])]
          IN  /\ team.type = "teams"
              /\ team.data.id = DoneUsers[k].id
              /\ team.data.name = DoneUsers[k].name

(* C8, as stated: a participant whose organization/group is newly derived
   emits organization, group, team; any other emits its team only. *)
C8_AllThreeOrTeamOnly ==
    LET segs == Segments
    IN  /\ PartAdjacent
        /\ OneTeamPerUser(segs)
        /\ \A k \in 1..Len(DoneUsers) :
              TypesOf(segs[k]) =
                  (IF OrgNew(k) \/ GroupNew(k)
                   THEN <<"organizations", "groups", "teams">>
                   ELSE <<"teams">>)

(* C8, amended: a participant emits an organizations event exactly when its
   organization id is new, then a groups event exactly when its group id is
   new, then its teams event, adjacent in that order; one teams event per
   user, in document order, the last event of the participant. *)
C8_NewOrgThenNewGroupThenTeam ==
    LET segs == Segments
    IN  /\ PartAdjacent
        /\ OneTeamPerUser(segs)
        /\ \A k \in 1..Len(DoneUsers) :
              LET seg == segs[k]
              IN  /\ TypesOf(seg) =
                        (IF OrgNew(k) THEN <<"organizations">> ELSE <<>>)
                        \o (IF GroupNew(k) THEN <<"groups">> ELSE <<>>)
                        \o <<"teams">>
                  /\ OrgNew(k) => seg[1].data.id = OrgOf(k)
                  /\ GroupNew(k) => seg[Len(seg) - 1].data.id = GroupOf(k)

C8_Witness ==
    /\ pc = "done"
    /\ Len(DoneUsers) = 2
    /\ OrgNew(2) /\ ~ GroupNew(2)
    /\ TypesOf(Segments[1]) = <<"organizations", "groups", "teams">>
    /\ TypesOf(Segments[2]) = <<"organizations", "teams">>

-----------------------------------------------------------------------------
(* Reading a rendered absolute time back: the seconds from the start of the
   day of the contest start. *)
SecondsFromStartDay(iso) ==
    (iso.date - start_time_dt.day) * 86400
    + 3600 * DigitsVal(SubSeq(iso.time, 1, 2))
    + 60 * DigitsVal(SubSeq(iso.time, 4, 5))
    + DigitsVal(SubSeq(iso.time, 7, 8))

StartSeconds == start_time_dt.sod

(* C9: the submissions event of a run at t seconds has time S + t and
   contest_time the rendering of t; its judgements event has the same id,
   start and end times equal to S + t and contest times equal to the
   contest_time of the submission; the state event has ended = finalized =
   S + duration. *)
C9_Times ==
    LET subs == OfType(file, {"submissions"})
        juds == OfType(file, {"judgements"})
    IN  /\ Len(subs) = Len(DoneRuns)
        /\ Len(juds) = Len(DoneRuns)
        /\ \A k \in 1..Len(DoneRuns) :
              LET t == int(DoneRuns[k].time).v
                  sub == subs[k].data
                  jud == juds[k].data
              IN  /\ SecondsFromStartDay(sub.time) = StartSeconds + t
                  /\ Len(sub.time.time) = 8
                  /\ sub.time.tz = <<"+", "0", "3", ":", "0", "0">>
                  /\ t >= 0 =>
                        /\ DigitsVal(HoursField(sub.contest_time)) = t \div 3600
                        /\ DigitsVal(MinutesField(sub.contest_time)) = (t % 3600) \div 60
                        /\ DigitsVal(SubSeq(SecondsField(sub.contest_time), 1, 2)) = t % 60
                        /\ SecondsFromStartDay(jud.start_time) >= StartSeconds
                  /\ sub.contest_time = format_hms_sss(t)
                  /\ jud.id = sub.id
                  /\ jud.submission_id = sub.id
                  /\ jud.start_time = sub.time
                  /\ jud.end_time = sub.time
                  /\ jud.start_contest_time = sub.contest_time
                  /\ jud.end_contest_time = sub.contest_time
        /\ pc = "done" =>
              LET st == file[Len(file)].data
              IN  /\ SecondsFromStartDay(st.ended) = StartSeconds + int(root.duration).v
                  /\ st.finalized = st.ended

C9_Witness ==
    /\ pc = "done"
    /\ Len(DoneRuns) = 2
    /\ int(DoneRuns[1].time).v = 3661
    /\ int(DoneRuns[2].time).v = 0 - 5
    /\ OfType(file, {"submissions"})[1].data.time.date
         # OfType(file, {"submissions"})[2].data.time.date

(* C10: the keys of groups are the ids of the groups events written, the keys
   of organizations the ids of the organizations events written, no id is
   written twice, and every teams event carries one group id, Guest when the
   name holds the guest marker and the organization id otherwise, whose
   groups event is earlier in the feed. *)
C10_GroupsInvariant ==
    /\ DOMAIN groups = {file[k].data.id : k \in Positions({"groups"})}
    /\ DOMAIN organizations = {file[k].data.id : k \in Positions({"organizations"})}
    /\ Cardinality(DOMAIN groups) = Cardinality(Positions({"groups"}))
    /\ Cardinality(DOMAIN organizations) = Cardinality(Positions({"organizations"}))
    /\ \A t \in Positions({"teams"}) :
          LET team == file[t].data
          IN  /\ Len(team.group_ids) = 1
              /\ team.group_ids[1] =
                    (IF Contains(team.name, GuestTeam) THEN Guest
                     ELSE team.organization_id)
              /\ \E g \in Positions({"groups"}) :
                    g < t /\ file[g].data.id = team.group_ids[1]

C10_Witness ==
    /\ Cardinality(Positions({"teams"})) = 2
    /\ \E a, b \in Positions({"teams"}) :
          /\ a < b
          /\ file[a].data.group_ids = <<Guest>>
          /\ file[b].data.group_ids # <<Guest>>
          /\ file[a].data.organization_id = file[b].data.organization_id
    /\ DOMAIN groups = {Guest, <<"A">>}

====
